---------------------------- MODULE Spec2Model ----------------------------
(***************************************************************************)
(* A model of pyaixi: the bit codec (util.py), the CTW context tree        *)
(* (pyaixi/prediction/ctw_context_tree.py), the MC-AIXI-CTW agent          *)
(* (agents/mc_aixi_ctw.py) and the Monte-Carlo search tree                 *)
(* (search/monte_carlo_search_tree.py).                                    *)
(*                                                                         *)
(* Numbers.  The source keeps probabilities as floating-point logarithms   *)
(* (log_kt, log_probability).  The model keeps the number whose logarithm  *)
(* the source stores, as an exact fraction <<n, d>> in lowest terms:       *)
(* "log x + log y" is the product, "log x - log y" the quotient, log(0.5)  *)
(* is 1/2, exp(a - b) is the quotient, and the initial 0.0 is 1/1.         *)
(* Rounding of the floating-point operations is not modelled.              *)
(***************************************************************************)
EXTENDS Integers, Sequences, FiniteSets, TLC

VARIABLES
    depth,          \* CTWContextTree.depth
    history,        \* CTWContextTree.history
    nodes,          \* the nodes reachable from CTWContextTree.root, by path
    tree_size,      \* CTWContextTree.tree_size
    op,             \* the last operation: its name, arguments and result
    pre,            \* the tree as it was when the last operation was called
    base,           \* the tree before the update that the last revert undoes
    matched,        \* how many trailing history bits were appended by update
    calls,          \* how many calls were made on the tree, where they are counted
    enc,            \* the last call of util.encode
    dec,            \* the last call of util.decode
    environment,    \* Agent.environment: its valid actions, observations, rewards
    horizon,        \* MC_AIXI_CTW_Agent.horizon
    mc_simulations, \* MC_AIXI_CTW_Agent.mc_simulations
    learning_period, \* Agent.learning_period
    age,            \* Agent.age
    total_reward,   \* Agent.total_reward
    last_update,    \* Agent.last_update
    pc,             \* where search() stands: "idle", "sample" or "revert"
    search_tree,    \* the MonteCarloSearchNode tree of search(), by path
    undo_instance,  \* the MC_AIXI_CTW_Undo taken by search()
    sims,           \* the loop counter i of search()
    searches,       \* how many times search() was called
    saved           \* the agent as it was when search() was called

treeVars == <<depth, history, nodes, tree_size>>
ghostVars == <<op, pre, base, matched, calls>>
codecVars == <<enc, dec>>
configVars == <<environment, horizon, mc_simulations, learning_period>>
agentVars == <<age, total_reward, last_update>>
searchVars == <<pc, search_tree, undo_instance, sims, searches, saved>>

vars == <<treeVars, ghostVars, codecVars, configVars, agentVars, searchVars>>

-----------------------------------------------------------------------------
(* Bounds of the model. *)

MaxDepth == 2
MaxHistory == 3
MaxBits == 2

-----------------------------------------------------------------------------
(* Sequences of bits. *)

Bit == {0, 1}

RECURSIVE SeqsUpTo(_, _)
SeqsUpTo(S, n) ==
    IF n = 0 THEN {<<>>}
    ELSE LET shorter == SeqsUpTo(S, n - 1)
         IN  shorter \cup {Append(q, x) : q \in {r \in shorter : Len(r) = n - 1}, x \in S}

BitLists(n) == SeqsUpTo(Bit, n) \ {<<>>}

Take(s, n) == SubSeq(s, 1, IF n < Len(s) THEN n ELSE Len(s))

Min(a, b) == IF a <= b THEN a ELSE b
Max(a, b) == IF a >= b THEN a ELSE b

-----------------------------------------------------------------------------
(* Exact fractions <<n, d>>, d > 0, in lowest terms. *)

RECURSIVE GCD(_, _)
GCD(a, b) == IF b = 0 THEN a ELSE GCD(b, a % b)

Abs(a) == IF a < 0 THEN -a ELSE a

Norm(n, d) ==
    LET g == GCD(Abs(n), Abs(d))
        s == IF d < 0 THEN -1 ELSE 1
    IN  <<(s * n) \div g, (s * d) \div g>>

One == <<1, 1>>
RatMul(x, y) == Norm(x[1] * y[1], x[2] * y[2])
RatDiv(x, y) == Norm(x[1] * y[2], x[2] * y[1])
RatAdd(x, y) == Norm(x[1] * y[2] + y[1] * x[2], x[2] * y[2])
RatLeq(x, y) == x[1] * y[2] <= y[1] * x[2]

RECURSIVE RatPow(_, _)
RatPow(x, n) == IF n = 0 THEN One ELSE RatMul(x, RatPow(x, n - 1))

\* log_half = math.log(0.5)
log_half == <<1, 2>>

-----------------------------------------------------------------------------
(* util.py: the bit codec.  A call either returns or fails an assertion;   *)
(* X_ok is the conjunction of the assertions of X, and X is the value      *)
(* returned when they hold.                                                *)

\* bin(integer_value) without its '0b' prefix: the binary digits of a
\* non-negative integer, most significant first, '0' for zero.
RECURSIVE bin(_)
bin(integer_value) ==
    IF integer_value < 2 THEN <<integer_value>>
    ELSE Append(bin(integer_value \div 2), integer_value % 2)

\* int(bit_string, 2): the digits read most significant first.
RECURSIVE int2(_)
int2(bit_string) ==
    IF bit_string = <<>> THEN 0
    ELSE 2 * int2(SubSeq(bit_string, 1, Len(bit_string) - 1))
         + bit_string[Len(bit_string)]

\* list.reverse()
reverse(s) == [i \in 1..Len(s) |-> s[Len(s) + 1 - i]]

\* util.bits_required
bits_required(integer_value) == Len(bin(integer_value))

\* util.decode
decode_ok(symbol_list, bit_count) ==
    /\ bit_count > 0
    /\ bit_count <= Len(symbol_list)

\* util.decode without the reversal of the bits it took.
decode_unreversed(symbol_list, bit_count) ==
    LET bits == SubSeq(symbol_list, Len(symbol_list) - bit_count + 1, Len(symbol_list))
    IN  int2(bits)

decode(symbol_list, bit_count) ==
    LET bits == SubSeq(symbol_list, Len(symbol_list) - bit_count + 1, Len(symbol_list))
    IN  int2(reverse(bits))

\* encode's first assertion alone.
encode_ok_sign_only(integer_symbol, bit_count) == integer_symbol >= 0

\* util.encode
encode_ok(integer_symbol, bit_count) ==
    /\ integer_symbol >= 0
    /\ bit_count >= Len(bin(integer_symbol))

encode(integer_symbol, bit_count) ==
    LET bits == bin(integer_symbol)
        bits_length == Len(bits)
        \* xrange(0, bits_length - bit_count) is empty unless the difference
        \* is positive
        pad_list == [i \in 1..Max(0, bits_length - bit_count) |-> 0]
    IN  pad_list \o bits

\* The list passed to decode, as the call leaves it: symbol_list[-bit_count:]
\* is a new list, and it is that list which is reversed in place.
decode_symbol_list(symbol_list, bit_count) ==
    LET bits == SubSeq(symbol_list, Len(symbol_list) - bit_count + 1, Len(symbol_list))
        reversed == reverse(bits)
    IN  symbol_list

\* A call of the codec: its arguments, whether it failed and what it
\* returned, whether its argument was the result of the other function, and
\* the list argument as the call left it.
Call(value, bits, width, err, ret, of, after) ==
    [value |-> value, bits |-> bits, width |-> width,
     err |-> err, ret |-> ret, of |-> of, after |-> after]

NoCall == Call(0, <<>>, 0, FALSE, <<>>, "none", <<>>)

-----------------------------------------------------------------------------
(* CTWContextTreeNode. A node is named by its path from the root, the     *)
(* symbols that key the children links followed, written as the number     *)
(* whose binary digits are a leading 1 and then those symbols: the root is *)
(* 1 and the child of p under symbol s is 2p + s.  `nodes` maps the names  *)
(* of the existing nodes to their fields, so a node p has a child under    *)
(* symbol s exactly when Child(p, s) is in DOMAIN nodes.                   *)

Root == 1

Child(p, s) == 2 * p + s

\* Whether q is p or a descendant of p.
RECURSIVE IsUnder(_, _)
IsUnder(p, q) == q = p \/ (q > p /\ IsUnder(p, q \div 2))

\* CTWContextTreeNode.__init__
NewNode == [symbol_count |-> [s \in Bit |-> 0], log_kt |-> One, log_probability |-> One]

children(ns, p) == {s \in Bit : Child(p, s) \in DOMAIN ns}

visits(n) == n.symbol_count[0] + n.symbol_count[1]

\* The nodes of the subtree rooted at p (CTWContextTreeNode.size counts them).
Subtree(ns, p) == {q \in DOMAIN ns : IsUnder(p, q)}

size(ns, p) == Cardinality(Subtree(ns, p))

log_kt_multiplier(n, symbol) ==
    LET numerator == 2 * n.symbol_count[symbol] + 1     \* count + 0.5, doubled
        denominator == 2 * (visits(n) + 1)
    IN  Norm(numerator, denominator)

RECURSIVE ProductOf(_, _, _)
ProductOf(ns, p, S) ==
    IF S = {} THEN One
    ELSE LET s == CHOOSE x \in S : TRUE
         IN  RatMul(ns[Child(p, s)].log_probability, ProductOf(ns, p, S \ {s}))

\* update_log_probability taking every node for a leaf.
update_log_probability_as_leaf(ns, p, log_kt) == log_kt

\* The value update_log_probability stores in node p, given its log_kt.
update_log_probability(ns, p, log_kt) ==
    IF children(ns, p) = {} THEN log_kt
    ELSE LET log_child_probability == ProductOf(ns, p, children(ns, p))
             a == IF RatLeq(log_child_probability, log_kt) THEN log_kt ELSE log_child_probability
             b == IF RatLeq(log_child_probability, log_kt) THEN log_child_probability ELSE log_kt
         IN  RatMul(log_half, RatMul(a, RatAdd(One, RatDiv(b, a))))

\* CTWContextTreeNode.update on node p of tree t.
NodeUpdate(t, p, symbol) ==
    LET n == t.nodes[p]
        kt == RatMul(n.log_kt, log_kt_multiplier(n, symbol))
        n2 == [symbol_count |-> [n.symbol_count EXCEPT ![symbol] = @ + 1],
               log_kt |-> kt,
               log_probability |-> update_log_probability(t.nodes, p, kt)]
    IN  [t EXCEPT !.nodes = [t.nodes EXCEPT ![p] = n2]]

\* CTWContextTreeNode.revert deleting the redundant child without taking
\* its size off the tree size.
NodeRevertKeepingSize(t, p, symbol) ==
    LET n == t.nodes[p]
        this_symbol_count == n.symbol_count[symbol]
        counts == [n.symbol_count EXCEPT ![symbol] =
                      IF this_symbol_count > 1 THEN this_symbol_count - 1 ELSE 0]
        child == Child(p, symbol)
        redundant == child \in DOMAIN t.nodes /\ visits(t.nodes[child]) = 0
        kept == IF redundant THEN DOMAIN t.nodes \ Subtree(t.nodes, child)
                ELSE DOMAIN t.nodes
        ns == [q \in kept |-> t.nodes[q]]
        n1 == [n EXCEPT !.symbol_count = counts]
        kt == RatDiv(n.log_kt, log_kt_multiplier(n1, symbol))
        n2 == [symbol_count |-> counts,
               log_kt |-> kt,
               log_probability |-> update_log_probability(ns, p, kt)]
    IN  [t EXCEPT !.nodes = [ns EXCEPT ![p] = n2]]

\* CTWContextTreeNode.revert on node p of tree t.
NodeRevert(t, p, symbol) ==
    LET n == t.nodes[p]
        this_symbol_count == n.symbol_count[symbol]
        counts == [n.symbol_count EXCEPT ![symbol] =
                      IF this_symbol_count > 1 THEN this_symbol_count - 1 ELSE 0]
        child == Child(p, symbol)
        redundant == child \in DOMAIN t.nodes /\ visits(t.nodes[child]) = 0
        kept == IF redundant THEN DOMAIN t.nodes \ Subtree(t.nodes, child)
                ELSE DOMAIN t.nodes
        size2 == IF redundant THEN t.tree_size - size(t.nodes, child) ELSE t.tree_size
        ns == [q \in kept |-> t.nodes[q]]
        n1 == [n EXCEPT !.symbol_count = counts]
        kt == RatDiv(n.log_kt, log_kt_multiplier(n1, symbol))
        n2 == [symbol_count |-> counts,
               log_kt |-> kt,
               log_probability |-> update_log_probability(ns, p, kt)]
    IN  [t EXCEPT !.nodes = [ns EXCEPT ![p] = n2], !.tree_size = size2]

-----------------------------------------------------------------------------
(* CTWContextTree.  A tree value is the record of the fields the methods   *)
(* read and write: history, nodes (the root and its descendants) and       *)
(* tree_size.  The maximum depth is the variable depth, fixed at           *)
(* construction.  The scratch list self.context is rebuilt by              *)
(* update_context before every use and is returned by it here.             *)

Tree(h, ns, sz) == [history |-> h, nodes |-> ns, tree_size |-> sz]

\* CTWContextTree.__init__ and clear: an empty history and a fresh root.
clear == Tree(<<>>, [p \in {Root} |-> NewNode], 1)

\* CTWContextTree.size
TreeSize(t) == t.tree_size

\* The number of passes of update_context's loop: one per history symbol,
\* newest first, leaving the loop once update_depth exceeds depth (the test
\* follows the pass, so a pass is made even when depth = 0).
ContextSteps(t) == Min(Len(t.history), Max(depth, 1))

\* CTWContextTree.update_context: the context path, root first, and the tree
\* with the nodes missing on that path created.
RECURSIVE ContextNode(_, _)
ContextNode(h, i) ==
    IF i = 0 THEN Root ELSE Child(ContextNode(h, i - 1), h[Len(h) + 1 - i])

update_context(t) ==
    LET steps == ContextSteps(t)
        context == [i \in 1..(steps + 1) |-> ContextNode(t.history, i - 1)]
        path == {context[i] : i \in 1..(steps + 1)}
        missing == path \ DOMAIN t.nodes
    IN  [context |-> context,
         tree |-> [t EXCEPT
                     !.nodes = [p \in DOMAIN t.nodes \cup missing |->
                                   IF p \in missing THEN NewNode ELSE t.nodes[p]],
                     !.tree_size = t.tree_size + Cardinality(missing)]]

\* self.context[:self.depth], the nodes update and revert walk over.
ContextSlice(context) == Take(context, depth)

\* for context_node in reversed(context[:depth]): context_node.update(symbol)
RECURSIVE UpdateNodes(_, _, _, _)
UpdateNodes(t, slice, i, symbol) ==
    IF i = 0 THEN t
    ELSE UpdateNodes(NodeUpdate(t, slice[i], symbol), slice, i - 1, symbol)

\* for context_node in reversed(context[:depth]): context_node.revert(symbol)
RECURSIVE RevertNodes(_, _, _, _)
RevertNodes(t, slice, i, symbol) ==
    IF i = 0 THEN t
    ELSE RevertNodes(NodeRevert(t, slice[i], symbol), slice, i - 1, symbol)

\* CTWContextTree.update_history
update_history(t, symbol_list) == [t EXCEPT !.history = t.history \o symbol_list]

\* One pass of update's loop learning whatever the length of the history.
UpdateSymbolWhateverLength(t, symbol) ==
    LET c == update_context(t)
        slice == ContextSlice(c.context)
    IN  update_history(UpdateNodes(c.tree, slice, Len(slice), symbol), <<symbol>>)

\* One pass of the loop of CTWContextTree.update.
UpdateSymbol(t, symbol) ==
    LET learnt ==
            IF Len(t.history) >= depth
            THEN LET c == update_context(t)
                     slice == ContextSlice(c.context)
                 IN  UpdateNodes(c.tree, slice, Len(slice), symbol)
            ELSE t
    IN  update_history(learnt, <<symbol>>)

\* CTWContextTree.update
RECURSIVE update(_, _)
update(t, symbol_list) ==
    IF symbol_list = <<>> THEN t
    ELSE update(UpdateSymbol(t, Head(symbol_list)), Tail(symbol_list))

\* One pass of revert's loop unlearning only when the history left is
\* longer than the depth.
RevertSymbolWhenLonger(t) ==
    LET symbol == t.history[Len(t.history)]
        popped == [t EXCEPT !.history = SubSeq(t.history, 1, Len(t.history) - 1)]
    IN  IF Len(popped.history) > depth
        THEN LET c == update_context(popped)
                 slice == ContextSlice(c.context)
             IN  RevertNodes(c.tree, slice, Len(slice), symbol)
        ELSE popped

\* One pass of the loop of CTWContextTree.revert, the history being non-empty.
RevertSymbol(t) ==
    LET symbol == t.history[Len(t.history)]
        popped == [t EXCEPT !.history = SubSeq(t.history, 1, Len(t.history) - 1)]
    IN  IF Len(popped.history) >= depth
        THEN LET c == update_context(popped)
                 slice == ContextSlice(c.context)
             IN  RevertNodes(c.tree, slice, Len(slice), symbol)
        ELSE popped

\* CTWContextTree.revert
RECURSIVE revert(_, _)
revert(t, symbol_count) ==
    IF symbol_count <= 0 \/ Len(t.history) = 0 THEN t
    ELSE revert(RevertSymbol(t), symbol_count - 1)

\* The assertion of update_context.
update_context_ok(t) == Len(t.history) >= depth

\* revert raising when asked for more symbols than the history holds.
revert_raises_when_short(t, symbol_count) == symbol_count > Len(t.history)

\* Whether revert raises: the only assertion on its way is that of
\* update_context, called in the passes that find len(history) >= depth.
RECURSIVE revert_raises(_, _)
revert_raises(t, symbol_count) ==
    IF symbol_count <= 0 \/ Len(t.history) = 0 THEN FALSE
    ELSE LET popped == [t EXCEPT !.history = SubSeq(t.history, 1, Len(t.history) - 1)]
         IN  \/ Len(popped.history) >= depth /\ ~update_context_ok(popped)
             \/ revert_raises(RevertSymbol(t), symbol_count - 1)

\* CTWContextTree.revert_history: the two assertions, then the truncation.
revert_history_ok(t, symbol_count) ==
    symbol_count > 0 /\ Len(t.history) >= symbol_count

\* revert_history unlearning the symbols it removes.
revert_history_unlearning(t, symbol_count) == revert(t, symbol_count)

revert_history(t, symbol_count) ==
    LET new_size == Len(t.history) - symbol_count
    IN  [t EXCEPT !.history = SubSeq(t.history, 1, new_size)]

\* predict with the fallback test written as a strict comparison.
predict_strict(t, symbol_list) ==
    LET symbol_list_length == Len(symbol_list)
    IN  IF Len(t.history) + symbol_list_length < depth
        THEN [ret |-> RatPow(log_half, symbol_list_length), tree |-> t]
        ELSE LET prob_history == t.nodes[Root].log_probability
                 updated == update(t, symbol_list)
                 prob_sequence == updated.nodes[Root].log_probability
             IN  [ret |-> RatDiv(prob_sequence, prob_history),
                  tree |-> revert(updated, symbol_list_length)]

\* CTWContextTree.predict: the value returned and the tree it leaves.
predict(t, symbol_list) ==
    LET symbol_list_length == Len(symbol_list)
    IN  IF Len(t.history) + symbol_list_length <= depth
        THEN [ret |-> RatPow(log_half, symbol_list_length), tree |-> t]
        ELSE LET prob_history == t.nodes[Root].log_probability
                 updated == update(t, symbol_list)
                 prob_sequence == updated.nodes[Root].log_probability
             IN  [ret |-> RatDiv(prob_sequence, prob_history),
                  tree |-> revert(updated, symbol_list_length)]

-----------------------------------------------------------------------------
(* Environment: the three lists an environment fixes, and the bit widths   *)
(* derived from them.                                                      *)

Env(actions, observations, rewards) ==
    [valid_actions |-> actions,
     valid_observations |-> observations,
     valid_rewards |-> rewards]

Elements(list) == {list[i] : i \in 1..Len(list)}

\* The loop of action_bits, observation_bits and reward_bits: the largest
\* bits_required over the list, 0 for an empty list.
RECURSIVE maximum_bits(_)
maximum_bits(list) ==
    IF list = <<>> THEN 0
    ELSE Max(bits_required(Head(list)), maximum_bits(Tail(list)))

action_bits == maximum_bits(environment.valid_actions)
observation_bits == maximum_bits(environment.valid_observations)
reward_bits == maximum_bits(environment.valid_rewards)
percept_bits == observation_bits + reward_bits

is_valid_action(action) == action \in Elements(environment.valid_actions)

\* valid_rewards[-1]
maximum_reward == environment.valid_rewards[Len(environment.valid_rewards)]

-----------------------------------------------------------------------------
(* MC_AIXI_CTW_Agent.  An agent value is the context tree with the fields  *)
(* age, total_reward and last_update; the operators below take the agent   *)
(* a method is called on and give the agent it leaves.                     *)

action_update == "action_update"
percept_update == "percept_update"

Agent(t, a, r, u) ==
    [tree |-> t, age |-> a, total_reward |-> r, last_update |-> u]

\* Agent.reset after CTWContextTree.clear
reset == Agent(clear, 0, 0, action_update)

encode_action(action) == encode(action, action_bits)

encode_percept(observation, reward) ==
    encode(reward, reward_bits) \o encode(observation, observation_bits)

decode_percept(symbol_list) ==
    LET reward_symbols == SubSeq(symbol_list, 1, reward_bits)
        observation_symbols ==
            SubSeq(symbol_list, reward_bits + 1, reward_bits + observation_bits)
    IN  [observation |-> decode(observation_symbols, observation_bits),
         reward |-> decode(reward_symbols, reward_bits)]

history_size(A) == Len(A.tree.history)

\* MC_AIXI_CTW_Undo.__init__
MC_AIXI_CTW_Undo(A) ==
    [age |-> A.age, total_reward |-> A.total_reward,
     history_size |-> history_size(A), last_update |-> A.last_update]

\* CTWContextTree.generate_random_symbols_and_update: every list of symbols
\* it can draw, each with the tree it leaves.  random.random() lies in
\* [0, 1), so 1 can be drawn when predict(1) > 0 and 0 when predict(1) < 1.
RECURSIVE generate_random_symbols_and_update(_, _)
generate_random_symbols_and_update(t, symbol_count) ==
    IF symbol_count = 0 THEN {[symbol_list |-> <<>>, tree |-> t]}
    ELSE LET p == predict(t, <<1>>)
             symbols == {symbol \in Bit :
                            IF symbol = 1 THEN ~RatLeq(p.ret, <<0, 1>>)
                                          ELSE ~RatLeq(One, p.ret)}
         IN  UNION {{[symbol_list |-> <<symbol>> \o g.symbol_list, tree |-> g.tree] :
                        g \in generate_random_symbols_and_update(
                                  update(p.tree, <<symbol>>), symbol_count - 1)} :
                    symbol \in symbols}

\* CTWContextTree.generate_random_symbols: its first statement passes the
\* local symbol_list, not yet assigned, to generate_random_symbols_and_update,
\* so the call raises (UnboundLocalError) before anything is drawn or
\* reverted.
generate_random_symbols(t, symbol_count) ==
    {[symbol_list |-> <<>>, tree |-> t, err |-> TRUE]}

decode_action(symbol_list) == decode(symbol_list, action_bits)

\* generate_action: its assertion, then the symbols drawn and decoded.
generate_action(A) ==
    IF A.last_update # percept_update
    THEN {[agent |-> A, action |-> <<>>, err |-> TRUE]}
    ELSE {IF g.err
          THEN [agent |-> [A EXCEPT !.tree = g.tree], action |-> <<>>, err |-> TRUE]
          ELSE [agent |-> [A EXCEPT !.tree = g.tree],
                action |-> <<decode_action(g.symbol_list)>>, err |-> FALSE] :
          g \in generate_random_symbols(A.tree, action_bits)}

\* generate_percept_and_update: every percept it can return, each with the
\* agent it leaves.
generate_percept_and_update(A) ==
    {LET percept == decode_percept(g.symbol_list)
     IN  [agent |-> [A EXCEPT !.tree = g.tree,
                              !.total_reward = @ + percept.reward,
                              !.last_update = percept_update],
          observation |-> percept.observation,
          reward |-> percept.reward] :
     g \in generate_random_symbols_and_update(A.tree, percept_bits)}

\* model_update_action leaving the age as it is.
model_update_action_ageless(A, action) ==
    [A EXCEPT !.tree = update_history(@, encode_action(action)),
              !.last_update = action_update]

\* model_update_action learning from the action symbols.
model_update_action_learning(A, action) ==
    [A EXCEPT !.tree = update(@, encode_action(action)),
              !.age = @ + 1,
              !.last_update = action_update]

\* The assertions of model_update_action without the one on last_update.
model_update_action_ok_in_any_turn(A, action) == is_valid_action(action)

\* model_update_action without its two assertions.
model_update_action_unasserted(A, action) == TRUE

\* model_update_action: its two assertions, then the update.
model_update_action_ok(A, action) ==
    /\ is_valid_action(action)
    /\ A.last_update = percept_update

model_update_action(A, action) ==
    [A EXCEPT !.tree = update_history(@, encode_action(action)),
              !.age = @ + 1,
              !.last_update = action_update]

\* model_update_percept: its assertion and those of encode, then the update.
model_update_percept_ok(A, observation, reward) ==
    /\ A.last_update = action_update
    /\ encode_ok(reward, reward_bits)
    /\ encode_ok(observation, observation_bits)

model_update_percept(A, observation, reward) ==
    LET percept_symbols == encode_percept(observation, reward)
    IN  [A EXCEPT !.tree = IF learning_period > 0 /\ A.age > learning_period
                           THEN update_history(@, percept_symbols)
                           ELSE update(@, percept_symbols),
                  !.total_reward = @ + reward,
                  !.last_update = percept_update]

\* model_revert: the agent it leaves, and whether revert_history failed its
\* assertion on the way (the agent is then left as it was at that point).
RECURSIVE model_revert(_, _)
model_revert(A, undo) ==
    IF history_size(A) > undo.history_size
    THEN IF A.last_update = percept_update
         THEN model_revert([A EXCEPT !.tree = revert(@, percept_bits),
                                     !.last_update = action_update], undo)
         ELSE IF revert_history_ok(A.tree, action_bits)
              THEN model_revert([A EXCEPT !.tree = revert_history(@, action_bits),
                                          !.last_update = percept_update], undo)
              ELSE [agent |-> A, err |-> TRUE]
    ELSE [agent |-> [A EXCEPT !.age = undo.age,
                              !.total_reward = undo.total_reward,
                              !.last_update = undo.last_update],
          err |-> FALSE]

\* playout: every outcome of simulating `h` cycles with actions drawn by
\* generate_random_action: the agent left, the total reward, and whether
\* model_update_action failed an assertion.
RECURSIVE playout(_, _)
playout(A, h) ==
    IF h = 0 THEN {[agent |-> A, reward |-> 0, err |-> FALSE]}
    ELSE UNION {
           IF ~model_update_action_ok(A, action)
           THEN {[agent |-> A, reward |-> 0, err |-> TRUE]}
           ELSE UNION {{[o EXCEPT !.reward = g.reward + @] : o \in playout(g.agent, h - 1)} :
                       g \in generate_percept_and_update(model_update_action(A, action))} :
           action \in Elements(environment.valid_actions)}

-----------------------------------------------------------------------------
(* MonteCarloSearchNode.  A node is named by the keys of the children      *)
(* links from the root of the search (actions and observations in turn);   *)
(* a search tree maps the names of its nodes to their fields.  The mean is *)
(* an exact fraction.                                                      *)

chance_node == "chance"
decision_node == "decision"

exploration_constant == 2
unexplored_bias == 1000000000

\* A search node created as if it had been visited once.
MonteCarloSearchNodeVisited(nodetype) ==
    [type |-> nodetype, mean |-> <<0, 1>>, visits |-> 1]

\* MonteCarloSearchNode.__init__
MonteCarloSearchNode(nodetype) ==
    [type |-> nodetype, mean |-> <<0, 1>>, visits |-> 0]

\* A new tree holding the root alone.
NewSearchTree(nodetype) == [p \in {<<>>} |-> MonteCarloSearchNode(nodetype)]

\* self.children[key], created with the type of its parent if it is not
\* there.
WithChildOfSameKind(st, p, key, nodetype) ==
    IF Append(p, key) \in DOMAIN st THEN st
    ELSE [q \in DOMAIN st \cup {Append(p, key)} |->
             IF q \in DOMAIN st THEN st[q] ELSE MonteCarloSearchNode(st[p].type)]

\* self.children[key], created with the given type if it is not there.
WithChild(st, p, key, nodetype) ==
    IF Append(p, key) \in DOMAIN st THEN st
    ELSE [q \in DOMAIN st \cup {Append(p, key)} |->
             IF q \in DOMAIN st THEN st[q] ELSE MonteCarloSearchNode(nodetype)]

\* The running mean without the count of the visit.
VisitUncounted(st, p, reward) ==
    LET visits_ == st[p].visits
    IN  [st EXCEPT ![p] =
            [@ EXCEPT !.mean = RatDiv(RatAdd(<<reward, 1>>, RatMul(<<visits_, 1>>, @)),
                                      <<visits_ + 1, 1>>)]]

\* The end of sample counting the visit twice.
VisitTwice(st, p, reward) ==
    LET visits_ == st[p].visits
    IN  [st EXCEPT ![p] =
            [@ EXCEPT !.mean = RatDiv(RatAdd(<<reward, 1>>, RatMul(<<visits_, 1>>, @)),
                                      <<visits_ + 1, 1>>),
                      !.visits = visits_ + 2]]

\* The end of sample keeping the last reward in place of the running mean.
VisitKeepingLastReward(st, p, reward) ==
    [st EXCEPT ![p] = [@ EXCEPT !.mean = <<reward, 1>>, !.visits = @ + 1]]

\* The last three statements of sample: the running mean and the visits.
Visit(st, p, reward) ==
    LET visits_ == st[p].visits
    IN  [st EXCEPT ![p] =
            [@ EXCEPT !.mean = RatDiv(RatAdd(<<reward, 1>>, RatMul(<<visits_, 1>>, @)),
                                      <<visits_ + 1, 1>>),
                      !.visits = visits_ + 1]]

\* The priority of an action without the bias for unexplored actions: an
\* action without a visited child counts as explored once with mean 0.
PriorityWithoutBias(st, p, action) ==
    LET c == Append(p, action)
    IN  IF c \notin DOMAIN st \/ st[c].visits = 0
        THEN [explored |-> TRUE, mean |-> <<0, 1>>, visits |-> 1]
        ELSE [explored |-> TRUE, mean |-> st[c].mean, visits |-> st[c].visits]

\* The priority select_action gives an action of node p: unexplored_bias
\* for an action without a visited child, otherwise
\*   mean + explore_bias * sqrt(exploration_numerator / visits)
\* kept as its parts, the square root and the logarithm being irrational.
Priority(st, p, action) ==
    LET c == Append(p, action)
    IN  IF c \notin DOMAIN st \/ st[c].visits = 0
        THEN [explored |-> FALSE, mean |-> <<0, 1>>, visits |-> 0]
        ELSE [explored |-> TRUE, mean |-> st[c].mean, visits |-> st[c].visits]

MinusInfinity == [explored |-> FALSE, mean |-> <<0, 1>>, visits |-> -1]

Ceiling(x) == -((-x[1]) \div x[2])

\* An integer no smaller than explore_bias * sqrt(exploration_numerator / n)
\* in a node visited V >= 1 times, for any n >= 1: the square root of
\* exploration_constant * ln V is at most exploration_constant * V.
ExploreBound(V) == horizon * maximum_reward * exploration_constant * V

\* An integer no smaller than an explored priority.
PriorityCeiling(V, priority) == Ceiling(priority.mean) + ExploreBound(V)

\* The truth values `priority > best_priority + random.random() * 0.001`
\* can take in a node visited V times, the jitter lying in [0, 0.001).
\* Two explored priorities differ by d + T, d the difference of the means
\* and T = explore_bias * sqrt(2 ln V) * (1/sqrt(n) - 1/sqrt(n_best)).  T is
\* 0 when the visits are equal, V = 1 or explore_bias = 0; otherwise only
\* its sign and the bound |T| <= ExploreBound(V) are used, and both
\* answers are kept where these do not decide the comparison.
Exceeds(V, priority, best_priority) ==
    IF best_priority = MinusInfinity THEN {TRUE}
    ELSE IF ~priority.explored /\ ~best_priority.explored THEN {FALSE}
    ELSE IF ~priority.explored
         THEN IF PriorityCeiling(V, best_priority) + 1 <= unexplored_bias
              THEN {TRUE} ELSE BOOLEAN
    ELSE IF ~best_priority.explored
         THEN IF PriorityCeiling(V, priority) <= unexplored_bias
              THEN {FALSE} ELSE BOOLEAN
    ELSE LET d == RatAdd(priority.mean, <<-best_priority.mean[1], best_priority.mean[2]>>)
             sign == IF V = 1 \/ ExploreBound(V) = 0
                        \/ priority.visits = best_priority.visits
                     THEN 0
                     ELSE IF priority.visits < best_priority.visits THEN 1 ELSE -1
             THi == IF sign = 1 THEN <<ExploreBound(V), 1>> ELSE <<0, 1>>
             TLo == IF sign = -1 THEN <<-ExploreBound(V), 1>> ELSE <<0, 1>>
         IN  {b \in BOOLEAN :
                IF b THEN ~RatLeq(RatAdd(d, THi), <<0, 1>>)
                     ELSE ~RatLeq(<<1, 1000>>, RatAdd(d, TLo))}

\* The loop of select_action from the i-th valid action on: every action
\* it can end with.
RECURSIVE SelectFrom(_, _, _, _, _)
SelectFrom(st, p, i, best_action, best_priority) ==
    IF i > Len(environment.valid_actions) THEN {best_action}
    ELSE LET action == environment.valid_actions[i]
             priority == Priority(st, p, action)
         IN  UNION {IF b THEN SelectFrom(st, p, i + 1, action, priority)
                         ELSE SelectFrom(st, p, i + 1, best_action, best_priority) :
                    b \in Exceeds(st[p].visits, priority, best_priority)}

\* MonteCarloSearchNode.select_action
select_action(st, p) == SelectFrom(st, p, 1, -1, MinusInfinity)

\* MonteCarloSearchNode.sample on node p with the agent A: every outcome,
\* as the search tree and the agent it leaves, the reward it returns, and
\* whether an assertion failed on the way (nothing is then recorded in the
\* nodes the exception passes through).
RECURSIVE sample(_, _, _, _)
sample(st, p, A, h) ==
    IF h = 0
    THEN {[search_tree |-> st, agent |-> A, reward |-> 0, err |-> FALSE]}
    ELSE IF st[p].type = chance_node
    THEN UNION {
           LET st1 == WithChild(st, p, g.observation, decision_node)
           IN  {IF c.err THEN c
                ELSE [c EXCEPT !.search_tree = Visit(@, p, g.reward + c.reward),
                               !.reward = g.reward + @] :
                c \in sample(st1, Append(p, g.observation), g.agent, h - 1)} :
           g \in generate_percept_and_update(A)}
    ELSE IF st[p].visits = 0
    THEN {IF o.err
          THEN [search_tree |-> st, agent |-> o.agent, reward |-> 0, err |-> TRUE]
          ELSE [search_tree |-> Visit(st, p, o.reward), agent |-> o.agent,
                reward |-> o.reward, err |-> FALSE] :
          o \in playout(A, h)}
    ELSE UNION {
           IF ~model_update_action_ok(A, action)
           THEN {[search_tree |-> st, agent |-> A, reward |-> 0, err |-> TRUE]}
           ELSE LET st1 == WithChild(st, p, action, chance_node)
                IN  {IF c.err THEN c
                     ELSE [c EXCEPT !.search_tree = Visit(@, p, c.reward)] :
                     c \in sample(st1, Append(p, action), model_update_action(A, action), h)} :
           action \in select_action(st, p)}

\* The end of search(): every action it can return.  The action returned is
\* the first child of the root, in the order of valid_actions, whose mean
\* plus its own jitter in [0, 0.0001) is the largest: a child can be
\* returned exactly when no other child's mean is 0.0001 or more above
\* its own.  Without children the action drawn by generate_random_action
\* is returned.
BestActions(st) ==
    LET tried == {action \in Elements(environment.valid_actions) : <<action>> \in DOMAIN st}
    IN  IF tried = {} THEN Elements(environment.valid_actions)
        ELSE {action \in tried :
                \A other \in tried :
                    ~RatLeq(<<1, 10000>>,
                            RatAdd(st[<<other>>].mean,
                                   <<-st[<<action>>].mean[1], st[<<action>>].mean[2]>>))}

\* search() returning any valid action, whatever the search tree holds.
search_any_action(st, drawn) == Elements(environment.valid_actions)

\* The end of search() with best_action first set to `drawn`, the action
\* generate_random_action returned: it is kept when the root has no child.
search_best_action(st, drawn) ==
    {action \in BestActions(st) :
        (\A a \in Elements(environment.valid_actions) : <<a>> \notin DOMAIN st)
            => action = drawn}

-----------------------------------------------------------------------------
(* The context tree as a state machine: one action per public method,      *)
(* called with any argument within the bounds.  SpecTree is the tree under *)
(* its intended use: revert pops only bits that update appended.           *)

TheTree == Tree(history, nodes, tree_size)

SetTree(t) ==
    /\ history' = t.history
    /\ nodes' = t.nodes
    /\ tree_size' = t.tree_size

NoTree == Tree(<<>>, <<>>, 0)

Op(name, bits, n, ret, err, undoes) ==
    [name |-> name, bits |-> bits, n |-> n, ret |-> ret, err |-> err, undoes |-> undoes]

NoRet == <<>>

\* The values of the parts of the state a specification leaves alone.
IdleTree ==
    /\ depth = 0
    /\ history = clear.history
    /\ nodes = clear.nodes
    /\ tree_size = clear.tree_size
    /\ op = Op("init", <<>>, 0, NoRet, FALSE, FALSE)
    /\ pre = clear
    /\ base = NoTree
    /\ matched = 0
    /\ calls = 0

IdleCodec ==
    /\ enc = NoCall
    /\ dec = NoCall

IdleSearch ==
    /\ pc = "idle"
    /\ search_tree = NewSearchTree(decision_node)
    /\ undo_instance = MC_AIXI_CTW_Undo(reset)
    /\ sims = 0
    /\ searches = 0
    /\ saved = reset

IdleAgent ==
    /\ environment = Env(<<0, 1>>, <<0, 1>>, <<0, 1>>)
    /\ horizon = 1
    /\ mc_simulations = 1
    /\ learning_period = 0
    /\ age = reset.age
    /\ total_reward = reset.total_reward
    /\ last_update = reset.last_update
    /\ IdleSearch


InitTree ==
    /\ depth \in 0..MaxDepth
    /\ history = clear.history
    /\ nodes = clear.nodes
    /\ tree_size = clear.tree_size
    /\ op = Op("init", <<>>, 0, NoRet, FALSE, FALSE)
    /\ pre = clear
    /\ base = NoTree
    /\ matched = 0
    /\ calls = 0
    /\ IdleCodec
    /\ IdleAgent

\* The history never holds more than MaxHistory bits, within predict too.
Room(bits) == Len(history) + Len(bits) <= MaxHistory

Update(bits) ==
    /\ Room(bits)
    /\ SetTree(update(TheTree, bits))
    /\ op' = Op("update", bits, Len(bits), NoRet, FALSE, FALSE)
    /\ pre' = TheTree
    /\ base' = NoTree
    /\ matched' = matched + Len(bits)
    /\ calls' = calls
    /\ UNCHANGED <<depth, codecVars, configVars, agentVars, searchVars>>

UpdateHistory(bits) ==
    /\ Room(bits)
    /\ SetTree(update_history(TheTree, bits))
    /\ op' = Op("update_history", bits, Len(bits), NoRet, FALSE, FALSE)
    /\ pre' = TheTree
    /\ base' = NoTree
    /\ matched' = 0
    /\ calls' = calls
    /\ UNCHANGED <<depth, codecVars, configVars, agentVars, searchVars>>

\* revert(symbol_count), matched: every bit it pops was appended by update.
\* It undoes the preceding call when that call was update with symbol_count
\* symbols; base then keeps the tree as it was before that update.
Revert(symbol_count) ==
    LET undoes == op.name = "update" /\ op.n = symbol_count
    IN  /\ symbol_count <= matched
        /\ SetTree(revert(TheTree, symbol_count))
        /\ op' = Op("revert", <<>>, symbol_count, NoRet, FALSE, undoes)
        /\ pre' = TheTree
        /\ base' = IF undoes THEN pre ELSE NoTree
        /\ matched' = matched - symbol_count
        /\ calls' = calls
        /\ UNCHANGED <<depth, codecVars, configVars, agentVars, searchVars>>

Predict(bits) ==
    LET r == predict(TheTree, bits)
    IN  /\ Room(bits)
        /\ SetTree(r.tree)
        /\ op' = Op("predict", bits, Len(bits), r.ret, FALSE, FALSE)
        /\ pre' = TheTree
        /\ base' = NoTree
        /\ UNCHANGED <<depth, matched, calls, codecVars, configVars, agentVars, searchVars>>

NextTree ==
    \/ \E bits \in BitLists(MaxBits) : Update(bits)
    \/ \E bits \in BitLists(MaxBits) : UpdateHistory(bits)
    \/ \E k \in 1..MaxBits : Revert(k)
    \/ \E bits \in BitLists(MaxBits) : Predict(bits)

SpecTree == InitTree /\ [][NextTree]_vars

-----------------------------------------------------------------------------
(* Claims about the context tree, checked under SpecTree.                  *)

\* C3: predict(bits) leaves the history, every node (counts, log_kt, log_w,
\* children) and the tree size as they were before the call, and a second
\* identical predict call returns the same value.
C3_PredictLeavesTreeUnchanged ==
    op.name = "predict" =>
        /\ TheTree = pre
        /\ predict(TheTree, op.bits).ret = op.ret

\* C4: update(bits) followed by revert(len(bits)) leaves history, nodes and
\* tree size as they were before the update; from a fresh tree the result is
\* a tree of size 1 with root log_w = 0 and an empty history.
C4_UpdateRevertRestoresTree ==
    (op.name = "revert" /\ op.undoes) =>
        /\ TheTree = base
        /\ base = clear =>
              /\ tree_size = 1
              /\ nodes[Root].log_probability = One
              /\ history = <<>>

\* C5: in every state reached by update, update_history, matched revert and
\* predict calls, the value predict returns lies in [0, 1].
C5_PredictInUnitInterval ==
    op.name = "predict" => (RatLeq(<<0, 1>>, op.ret) /\ RatLeq(op.ret, One))

\* The product over i of predict([b_i]) taken in the tree updated with b_1..b_(i-1).
RECURSIVE ChainProduct(_, _)
ChainProduct(t, bs) ==
    IF bs = <<>> THEN One
    ELSE RatMul(predict(t, <<Head(bs)>>).ret, ChainProduct(update(t, <<Head(bs)>>), Tail(bs)))

\* C6: predict(b_1..b_n) equals the product of the one-bit predictions
\* predict([b_i]) made after update([b_1..b_(i-1)]) (chain rule).
C6_PredictChainRule ==
    op.name = "predict" => op.ret = ChainProduct(pre, op.bits)

\* C7: in every reachable tree state the one-bit predictions sum to one:
\* predict([0]) + predict([1]) = 1.
C7_OneBitPredictionsSumToOne ==
    (op.name = "predict" /\ op.n = 1) =>
        RatAdd(op.ret, predict(pre, <<1 - op.bits[1]>>).ret) = One

\* C8: while the history is shorter than the depth, predict(bs) returns
\* 0.5^len(bs) for a bit list bs of any length.
C8_UniformBelowDepth ==
    (op.name = "predict" /\ Len(pre.history) < depth) =>
        op.ret = RatPow(log_half, op.n)

\* C9: whenever len(history) + len(bits) <= depth, predict(bits) returns
\* 0.5^len(bits) and leaves history, nodes and tree size untouched; so
\* predict([1]) = 0.5 whenever len(history) < depth.
C9_UniformFallbackTouchesNothing ==
    (op.name = "predict" /\ Len(pre.history) + op.n <= depth) =>
        /\ op.ret = RatPow(log_half, op.n)
        /\ op.n = 1 => op.ret = <<1, 2>>
        /\ TheTree = pre

\* C9's case: a two-bit prediction answered by the fallback.
C9_Witness ==
    /\ op.name = "predict"
    /\ op.n = 2
    /\ Len(pre.history) + op.n <= depth

\* The number of occurrences of a symbol in a list.
RECURSIVE Count(_, _)
Count(bits, symbol) ==
    IF bits = <<>> THEN 0
    ELSE (IF Head(bits) = symbol THEN 1 ELSE 0) + Count(Tail(bits), symbol)

\* The KT estimate of a zeros and b ones, computed from scratch.
RECURSIVE KT(_, _)
KT(a, b) ==
    IF a = 0 /\ b = 0 THEN One
    ELSE IF a > 0 THEN RatMul(KT(a - 1, b), Norm(2 * (a - 1) + 1, 2 * (a + b)))
    ELSE RatMul(KT(a, b - 1), Norm(2 * (b - 1) + 1, 2 * (a + b)))

C20_DepthZeroIsKT ==
    (depth = 0 /\ op.name = "update" /\ pre = clear) =>
        LET zeros == Count(op.bits, 0)
            ones == Count(op.bits, 1)
        IN  /\ nodes[Root].symbol_count[0] = zeros
            /\ nodes[Root].symbol_count[1] = ones
            /\ DOMAIN nodes = {Root}
            /\ predict(TheTree, <<0>>).ret = Norm(2 * zeros + 1, 2 * (zeros + ones + 1))
            /\ predict(TheTree, <<1>>).ret = Norm(2 * ones + 1, 2 * (zeros + ones + 1))

\* C29: when len(history) >= D, update([s]) applies the node update to
\* every node of the context path of D + 1 nodes, from the deepest node at
\* depth D up to the root, so counts[s] grows by exactly 1 at each of those
\* D + 1 nodes, and then s is appended to the history.
C29_UpdateReachesWholePath ==
    (op.name = "update" /\ op.n = 1 /\ Len(pre.history) >= depth) =>
        /\ history = pre.history \o op.bits
        /\ \A i \in 0..depth :
              LET p == ContextNode(pre.history, i)
                  before == IF p \in DOMAIN pre.nodes
                            THEN pre.nodes[p].symbol_count[op.bits[1]]
                            ELSE 0
              IN  /\ p \in DOMAIN nodes
                  /\ nodes[p].symbol_count[op.bits[1]] = before + 1

\* The number of edges between the root and node p.
RECURSIVE NodeDepth(_)
NodeDepth(p) == IF p = Root THEN 0 ELSE 1 + NodeDepth(p \div 2)

\* C30: for every depth D >= 0 and every history with len(history) >= D the
\* context path built has exactly D + 1 nodes, root first, node i
\* (1 <= i <= D) being the child of node i - 1 along the i-th most recent
\* history bit; missing nodes are created, the tree size grows by exactly
\* the number created, and no node deeper than D is ever created.
C30_ContextPathHasDepthPlusOneNodes ==
    /\ \A p \in DOMAIN nodes : NodeDepth(p) <= depth
    /\ (op.name = "update" /\ op.n = 1 /\ Len(pre.history) >= depth) =>
          LET c == update_context(pre)
              created == DOMAIN c.tree.nodes \ DOMAIN pre.nodes
          IN  /\ Len(c.context) = depth + 1
              /\ c.context[1] = Root
              /\ \A i \in 1..depth :
                    c.context[i + 1] =
                        Child(c.context[i], pre.history[Len(pre.history) + 1 - i])
              /\ \A i \in 1..(depth + 1) : c.context[i] \in DOMAIN c.tree.nodes
              /\ c.tree.tree_size = pre.tree_size + Cardinality(created)
              /\ DOMAIN nodes = DOMAIN c.tree.nodes
              /\ tree_size = c.tree.tree_size

\* C40: for any tree state with depth D >= 1 and any bit list bits,
\* update(bits) followed by revert(len(bits)) restores the history exactly
\* and restores the counts of the root and of every node that has nonzero
\* visits afterwards; revert applies node reverts for a popped bit exactly
\* when the matching update applied node updates for it (the history after
\* the pop has at least D bits), so the tree is the one in which every
\* learnt bit, and no other, has been unlearnt.
C40_UpdateRevertRestoresCounts ==
    (depth >= 1 /\ op.name = "revert" /\ op.undoes) =>
        /\ history = base.history
        /\ nodes[Root].symbol_count = base.nodes[Root].symbol_count
        /\ \A p \in DOMAIN nodes :
              visits(nodes[p]) > 0 =>
                  /\ p \in DOMAIN base.nodes
                  /\ nodes[p].symbol_count = base.nodes[p].symbol_count
        /\ \A p \in DOMAIN base.nodes :
              visits(base.nodes[p]) > 0 => p \in DOMAIN nodes

\* C40's case: a learnt bit has been undone on a tree whose root had
\* counted a symbol before, and a node without visits is left behind.
C40_Witness ==
    /\ op.name = "revert"
    /\ op.undoes
    /\ depth = 1
    /\ Len(base.history) = 2
    /\ visits(base.nodes[Root]) > 0
    /\ nodes[Root].symbol_count = base.nodes[Root].symbol_count
    /\ \E p \in DOMAIN nodes : visits(nodes[p]) = 0

-----------------------------------------------------------------------------
(* The context tree under any use: each of its public methods called with  *)
(* any argument within the bounds, in any order, MaxCalls calls in all.    *)

MaxCalls == 3

\* A call that leaves the tree t.
TreeCall(name, bits, n, ret, err, t) ==
    /\ calls < MaxCalls
    /\ calls' = calls + 1
    /\ SetTree(t)
    /\ op' = Op(name, bits, n, ret, err, FALSE)
    /\ pre' = TheTree
    /\ base' = NoTree
    /\ matched' = 0
    /\ UNCHANGED <<depth, codecVars, configVars, agentVars, searchVars>>

AnyUpdate(bits) ==
    /\ Room(bits)
    /\ TreeCall("update", bits, Len(bits), NoRet, FALSE, update(TheTree, bits))

AnyUpdateHistory(bits) ==
    /\ Room(bits)
    /\ TreeCall("update_history", bits, Len(bits), NoRet, FALSE,
                update_history(TheTree, bits))

AnyRevert(symbol_count) ==
    IF revert_raises(TheTree, symbol_count)
    THEN TreeCall("revert", <<>>, symbol_count, NoRet, TRUE, TheTree)
    ELSE TreeCall("revert", <<>>, symbol_count, NoRet, FALSE, revert(TheTree, symbol_count))

AnyRevertHistory(symbol_count) ==
    IF revert_history_ok(TheTree, symbol_count)
    THEN TreeCall("revert_history", <<>>, symbol_count, NoRet, FALSE,
                  revert_history(TheTree, symbol_count))
    ELSE TreeCall("revert_history", <<>>, symbol_count, NoRet, TRUE, TheTree)

AnyPredict(bits) ==
    LET r == predict(TheTree, bits)
    IN  /\ Room(bits)
        /\ TreeCall("predict", bits, Len(bits), r.ret, FALSE, r.tree)

Clear == TreeCall("clear", <<>>, 0, NoRet, FALSE, clear)

NextTreeAny ==
    \/ \E bits \in BitLists(MaxBits) : AnyUpdate(bits)
    \/ \E bits \in BitLists(MaxBits) : AnyUpdateHistory(bits)
    \/ \E k \in 0..MaxBits : AnyRevert(k)
    \/ \E k \in 0..MaxBits : AnyRevertHistory(k)
    \/ \E bits \in BitLists(MaxBits) : AnyPredict(bits)
    \/ Clear

SpecTreeAny == InitTree /\ [][NextTreeAny]_vars

\* C21: revert(k) never raises: on an empty history it changes nothing
\* (history, nodes, tree size), and with k > len(history) it reverts the
\* bits that exist and stops silently with an empty history.
C21_RevertNeverRaises ==
    op.name = "revert" =>
        /\ ~op.err
        /\ pre.history = <<>> => TheTree = pre
        /\ op.n > Len(pre.history) =>
              /\ history = <<>>
              /\ TheTree = revert(pre, Len(pre.history))

\* C21's case: revert asked for more bits than the one the history holds,
\* on a tree whose root has counted symbols.
C21_Witness ==
    /\ op.name = "revert"
    /\ op.n > Len(pre.history)
    /\ Len(pre.history) = 1
    /\ visits(pre.nodes[Root]) > 0
    /\ history = <<>>

\* C22: revert_history(k) with k > len(history) raises an error and leaves
\* the history unchanged; with 1 <= k <= len(history) it removes exactly the
\* last k bits; in both cases no node's counts, probabilities or children
\* and not the tree size are modified.
C22_RevertHistoryTruncatesOnly ==
    op.name = "revert_history" =>
        /\ op.n > Len(pre.history) => (op.err /\ history = pre.history)
        /\ (1 <= op.n /\ op.n <= Len(pre.history)) =>
              /\ ~op.err
              /\ history = SubSeq(pre.history, 1, Len(pre.history) - op.n)
        /\ nodes = pre.nodes
        /\ tree_size = pre.tree_size

\* C22's case: two bits removed from the history of a tree that has learnt
\* from them.
C22_Witness ==
    /\ op.name = "revert_history"
    /\ ~op.err
    /\ op.n = 2
    /\ visits(nodes[Root]) > 0
    /\ tree_size > 1

\* C31: while len(history) < D, update([s]) only appends s to the history:
\* it creates no node and changes no node's counts, probabilities or
\* children and not the tree size.
C31_ShortHistoryUpdateOnlyAppends ==
    (op.name = "update" /\ op.n = 1 /\ Len(pre.history) < depth) =>
        /\ history = pre.history \o op.bits
        /\ nodes = pre.nodes
        /\ tree_size = pre.tree_size

\* C31's case: a bit given to update while the history, cut short by
\* revert_history, is shorter than the depth of a tree that has learnt.
C31_Witness ==
    /\ op.name = "update"
    /\ op.n = 1
    /\ Len(pre.history) < depth
    /\ visits(pre.nodes[Root]) > 0
    /\ pre.tree_size > 1

\* C32: children are destroyed when both of their counts reach zero through
\* reverts: after any revert call completes, the tree contains no non-root
\* node along the reverted context path whose counts are both zero.
C32_RevertLeavesNoEmptyNodeOnPath ==
    (op.name = "revert" /\ ~op.err /\ op.n = 1
        /\ Len(pre.history) >= 1 /\ Len(history) >= depth) =>
        \A i \in 1..Min(Len(history), Max(depth, 1)) :
            LET p == ContextNode(history, i)
            IN  p \in DOMAIN nodes => visits(nodes[p]) > 0

\* C37: after any sequence of update, update_history, revert,
\* revert_history, predict and clear calls, tree.size() equals the number of
\* nodes reachable from the root (so it is at least 1), and every node's
\* counts are nonnegative.
C37_SizeCountsTheNodes ==
    /\ Root \in DOMAIN nodes
    /\ \A p \in DOMAIN nodes : p # Root => (p \div 2) \in DOMAIN nodes
    /\ TreeSize(TheTree) = Cardinality(DOMAIN nodes)
    /\ TreeSize(TheTree) >= 1
    /\ \A p \in DOMAIN nodes : \A s \in Bit : nodes[p].symbol_count[s] >= 0

\* C37's case: a revert has deleted a node of a tree that keeps others.
C37_Witness ==
    /\ op.name = "revert"
    /\ tree_size < pre.tree_size
    /\ tree_size > 1

\* C18: after any sequence of the tree's public operations (update,
\* update_history, revert, revert_history, predict, clear), every node's
\* weighted probability is at most 1, i.e. log_w <= 0 at every node.
C18_WeightedProbabilityAtMostOne ==
    \A p \in DOMAIN nodes : RatLeq(nodes[p].log_probability, One)

-----------------------------------------------------------------------------
(* The codec as a state machine: encode and decode called with any         *)
(* argument within the bounds, or with the result of the other function    *)
(* and the same width (a round trip).                                      *)

MaxWidth == 3

InitCodec ==
    /\ IdleTree
    /\ IdleAgent
    /\ enc = NoCall
    /\ dec = NoCall

EncodeCall(integer_symbol, bit_count, of) ==
    LET ok == encode_ok(integer_symbol, bit_count)
    IN  Call(integer_symbol, <<>>, bit_count, ~ok,
             IF ok THEN encode(integer_symbol, bit_count) ELSE <<>>, of, <<>>)

DecodeCall(symbol_list, bit_count, of) ==
    LET ok == decode_ok(symbol_list, bit_count)
    IN  Call(0, symbol_list, bit_count, ~ok,
             IF ok THEN decode(symbol_list, bit_count) ELSE 0, of,
             IF ok THEN decode_symbol_list(symbol_list, bit_count) ELSE symbol_list)

Encode(integer_symbol, bit_count) ==
    /\ enc' = EncodeCall(integer_symbol, bit_count, "input")
    /\ dec' = NoCall
    /\ UNCHANGED <<treeVars, ghostVars, configVars, agentVars, searchVars>>

Decode(symbol_list, bit_count) ==
    /\ dec' = DecodeCall(symbol_list, bit_count, "input")
    /\ enc' = NoCall
    /\ UNCHANGED <<treeVars, ghostVars, configVars, agentVars, searchVars>>

\* decode(encode(v, w), w)
DecodeEncoded ==
    /\ enc.of = "input"
    /\ ~enc.err
    /\ dec' = DecodeCall(enc.ret, enc.width, "encode")
    /\ UNCHANGED <<enc, treeVars, ghostVars, configVars, agentVars, searchVars>>

\* encode(decode(bs, w), w)
EncodeDecoded ==
    /\ dec.of = "input"
    /\ ~dec.err
    /\ enc' = EncodeCall(dec.ret, dec.width, "decode")
    /\ UNCHANGED <<dec, treeVars, ghostVars, configVars, agentVars, searchVars>>

NextCodec ==
    \/ \E v \in -1..(2 ^ MaxWidth), w \in 0..MaxWidth : Encode(v, w)
    \/ \E bs \in SeqsUpTo(Bit, MaxWidth + 1), w \in 0..MaxWidth : Decode(bs, w)
    \/ DecodeEncoded
    \/ EncodeDecoded

SpecCodec == InitCodec /\ [][NextCodec]_vars

-----------------------------------------------------------------------------
(* Claims about the codec, checked under SpecCodec.                        *)

\* C10: for every width w >= 1 and every v with 0 <= v < 2^w,
\* decode(encode(v, w), w) succeeds and returns v; and for every bit list bs
\* of length w, encode(decode(bs, w), w) returns bs.
C10_RoundTrip ==
    /\ (enc.of = "input" /\ enc.width >= 1
           /\ 0 <= enc.value /\ enc.value < 2 ^ enc.width) => ~enc.err
    /\ (dec.of = "encode" /\ enc.width >= 1
           /\ 0 <= enc.value /\ enc.value < 2 ^ enc.width) =>
          (~dec.err /\ dec.ret = enc.value)
    /\ (enc.of = "decode" /\ dec.width >= 1 /\ Len(dec.bits) = dec.width) =>
          (~enc.err /\ enc.ret = dec.bits)

\* The bits of a value, low-order bit first, in a list of the given width.
LowOrderFirst(value, width) == [i \in 1..width |-> (value \div (2 ^ (i - 1))) % 2]

\* The value of a bit list whose last element is the most significant bit.
RECURSIVE ValueOf(_)
ValueOf(bits) ==
    IF bits = <<>> THEN 0 ELSE Head(bits) + 2 * ValueOf(Tail(bits))

\* C11: for every width and every value with 0 <= value < 2^width,
\* encode(value, width) returns a list of exactly `width` bits, ordered
\* low-order bit first and zero-padded up to the width.
C11_EncodeWidthLowOrderFirst ==
    (enc.of = "input" /\ 0 <= enc.value /\ enc.value < 2 ^ enc.width) =>
        /\ ~enc.err
        /\ Len(enc.ret) = enc.width
        /\ enc.ret = LowOrderFirst(enc.value, enc.width)

\* C12: decode(bits, width) reads only the last `width` elements of bits,
\* with the last element as the most significant bit, leaves the list it
\* was given unmodified, and fails when len(bits) < width.
C12_DecodeReadsTail ==
    dec.of = "input" =>
        /\ Len(dec.bits) < dec.width => dec.err
        /\ (dec.width >= 1 /\ Len(dec.bits) >= dec.width) =>
              /\ ~dec.err
              /\ dec.ret = ValueOf(SubSeq(dec.bits, Len(dec.bits) - dec.width + 1,
                                          Len(dec.bits)))
        /\ dec.after = dec.bits

\* C12's case: a decode that succeeds on a list longer than the width,
\* whose tail is not a palindrome and whose first element is set.
C12_Witness ==
    /\ dec.of = "input"
    /\ ~dec.err
    /\ dec.width = 2
    /\ dec.bits = <<1, 0, 1>>
    /\ dec.ret = 2

\* C13: encode(value, width) raises an error for every value < 0 and for
\* every value >= 2^width, instead of returning a bit list.
C13_EncodeRejectsOutOfRange ==
    (enc.of = "input" /\ (enc.value < 0 \/ enc.value >= 2 ^ enc.width)) =>
        (enc.err /\ enc.ret = <<>>)

\* C13's case: a value one past the largest the width can hold.
C13_Witness ==
    /\ enc.of = "input"
    /\ enc.width = 2
    /\ enc.value = 4
    /\ enc.err

-----------------------------------------------------------------------------
(* The agent as a state machine: the percept and action updates of the     *)
(* interaction loop, and search(), which takes one step per call of        *)
(* root.sample and of model_revert in its loop.                            *)

MaxAction == 2
MaxHorizon == 1
MaxSimulations == 3
MaxAge == 1
MaxSearches == 1

\* Environments with the actions 0..m and one-bit observations and rewards.
Environments ==
    {Env([i \in 1..(m + 1) |-> i - 1], <<0, 1>>, <<0, 1>>) : m \in 1..MaxAction}

TheAgent == Agent(TheTree, age, total_reward, last_update)

SetAgent(A) ==
    /\ SetTree(A.tree)
    /\ age' = A.age
    /\ total_reward' = A.total_reward
    /\ last_update' = A.last_update

\* The agent after __init__, for every configuration within the bounds.
Init ==
    /\ depth \in 0..MaxDepth
    /\ environment \in Environments
    /\ horizon \in 1..MaxHorizon
    /\ mc_simulations \in 1..MaxSimulations
    /\ learning_period = 0
    /\ history = reset.tree.history
    /\ nodes = reset.tree.nodes
    /\ tree_size = reset.tree.tree_size
    /\ age = reset.age
    /\ total_reward = reset.total_reward
    /\ last_update = reset.last_update
    /\ op = Op("init", <<>>, 0, NoRet, FALSE, FALSE)
    /\ pre = clear
    /\ base = NoTree
    /\ matched = 0
    /\ calls = 0
    /\ IdleCodec
    /\ IdleSearch

\* What every step of the agent does to the record of the last operation.
Did(name, ret, err) ==
    /\ op' = Op(name, <<>>, 0, ret, err, FALSE)
    /\ pre' = TheTree
    /\ base' = NoTree
    /\ matched' = 0
    /\ calls' = calls
    /\ UNCHANGED <<depth, codecVars, configVars>>

ModelUpdatePercept(observation, reward) ==
    /\ pc = "idle"
    /\ age < MaxAge
    /\ IF model_update_percept_ok(TheAgent, observation, reward)
       THEN /\ SetAgent(model_update_percept(TheAgent, observation, reward))
            /\ Did("model_update_percept", NoRet, FALSE)
       ELSE /\ SetAgent(TheAgent)
            /\ Did("model_update_percept", NoRet, TRUE)
    /\ UNCHANGED searchVars

ModelUpdateAction(action) ==
    /\ pc = "idle"
    /\ IF model_update_action_ok(TheAgent, action)
       THEN /\ SetAgent(model_update_action(TheAgent, action))
            /\ Did("model_update_action", NoRet, FALSE)
       ELSE /\ SetAgent(TheAgent)
            /\ Did("model_update_action", NoRet, TRUE)
    /\ UNCHANGED searchVars

\* generate_action()
GenerateAction ==
    /\ pc = "idle"
    /\ \E g \in generate_action(TheAgent) :
          /\ SetAgent(g.agent)
          /\ Did("generate_action", g.action, g.err)
    /\ UNCHANGED searchVars

\* search(): the save point and the new search tree.
SearchBegin ==
    /\ pc = "idle"
    /\ searches < MaxSearches
    /\ undo_instance' = MC_AIXI_CTW_Undo(TheAgent)
    /\ search_tree' = NewSearchTree(decision_node)
    /\ sims' = 0
    /\ searches' = searches + 1
    /\ saved' = TheAgent
    /\ pc' = "sample"
    /\ SetAgent(TheAgent)
    /\ Did("search_begin", NoRet, FALSE)

\* search() sampling one cycle beyond the horizon.
SampleBeyondHorizon ==
    /\ pc = "sample"
    /\ sims < mc_simulations
    /\ \E o \in sample(search_tree, <<>>, TheAgent, horizon + 1) :
          /\ SetAgent(o.agent)
          /\ search_tree' = o.search_tree
          /\ IF o.err
             THEN pc' = "idle" /\ Did("search", NoRet, TRUE)
             ELSE pc' = "revert" /\ Did("sample", <<o.reward>>, FALSE)
    /\ UNCHANGED <<undo_instance, sims, searches, saved>>

\* search(): search_tree.sample(self, self.horizon).  A failed assertion
\* ends search() with the agent as the exception left it.
Sample ==
    /\ pc = "sample"
    /\ sims < mc_simulations
    /\ \E o \in sample(search_tree, <<>>, TheAgent, horizon) :
          /\ SetAgent(o.agent)
          /\ search_tree' = o.search_tree
          /\ IF o.err
             THEN pc' = "idle" /\ Did("search", NoRet, TRUE)
             ELSE pc' = "revert" /\ Did("sample", <<o.reward>>, FALSE)
    /\ UNCHANGED <<undo_instance, sims, searches, saved>>

\* search(): self.model_revert(undo_instance), and the loop counter.
ModelRevert ==
    LET r == model_revert(TheAgent, undo_instance)
    IN  /\ pc = "revert"
        /\ SetAgent(r.agent)
        /\ IF r.err
           THEN pc' = "idle" /\ sims' = sims /\ Did("search", NoRet, TRUE)
           ELSE pc' = "sample" /\ sims' = sims + 1 /\ Did("model_revert", NoRet, FALSE)
        /\ UNCHANGED <<search_tree, undo_instance, searches, saved>>

\* search(): after the loop, the choice of the action returned.
SearchEnd ==
    /\ pc = "sample"
    /\ sims = mc_simulations
    /\ \E drawn \in Elements(environment.valid_actions) :
          \E action \in search_best_action(search_tree, drawn) :
              op' = Op("search", <<>>, drawn, <<action>>, FALSE, FALSE)
    /\ pre' = TheTree
    /\ base' = NoTree
    /\ matched' = 0
    /\ calls' = calls
    /\ UNCHANGED <<depth, codecVars, configVars>>
    /\ pc' = "idle"
    /\ SetAgent(TheAgent)
    /\ UNCHANGED <<search_tree, undo_instance, sims, searches, saved>>

Next ==
    \/ \E o \in 0..1, r \in 0..1 : ModelUpdatePercept(o, r)
    \/ \E a \in 0..MaxAction : ModelUpdateAction(a)
    \/ GenerateAction
    \/ SearchBegin
    \/ Sample
    \/ ModelRevert
    \/ SearchEnd

Spec == Init /\ [][Next]_vars

-----------------------------------------------------------------------------
(* Claims about search() and model_revert, checked under Spec.             *)

\* C1: for every environment and every agent state with last_update ==
\* percept, search() returns with the bit history, age, total_reward and
\* last_update it was called with; each root.sample followed by
\* model_revert brings the history back to exactly the saved length.
C1_SearchRestoresAgent ==
    (op.name \in {"model_revert", "search"} /\ saved.last_update = percept_update) =>
        /\ ~op.err
        /\ Len(history) = undo_instance.history_size
        /\ history = saved.tree.history
        /\ age = saved.age
        /\ total_reward = saved.total_reward
        /\ last_update = saved.last_update

\* C2: a save point, a simulated trajectory (root.sample) and then
\* model_revert(save) leave the context tree as it was at the save point:
\* the same nodes with the same counts and probabilities, the same size.
C2_ModelRevertRestoresTree ==
    (op.name = "model_revert" /\ sims = 1) =>
        /\ nodes = saved.tree.nodes
        /\ tree_size = saved.tree.tree_size

-----------------------------------------------------------------------------
(* The update hooks alone: model_update_percept and model_update_action    *)
(* called in any order, in turn or out of turn, from the agent after       *)
(* __init__.                                                               *)

NextUpdate ==
    \/ \E o \in 0..1, r \in 0..1 : ModelUpdatePercept(o, r)
    \/ \E a \in 0..MaxAction : ModelUpdateAction(a)

SpecUpdate == Init /\ [][NextUpdate]_vars

-----------------------------------------------------------------------------
(* Claims about the agent's update hooks: C14 checked under SpecUpdate,    *)
(* C16 and C17 under Spec.                                                 *)

\* C14: model_update_percept while last_update != action, and
\* model_update_action while last_update != percept or with an invalid
\* action, raise an error before any mutation: history, every tree node,
\* tree size, age, total_reward and last_update are unchanged by the call.
C14_FailedUpdateChangesNothing ==
    [][/\ \A o \in 0..1, r \in 0..1 :
            (ModelUpdatePercept(o, r) /\ last_update # action_update) =>
                (op'.err /\ UNCHANGED <<treeVars, agentVars>>)
       /\ \A a \in 0..MaxAction :
            (ModelUpdateAction(a)
                 /\ (last_update # percept_update \/ ~is_valid_action(a))) =>
                (op'.err /\ UNCHANGED <<treeVars, agentVars>>)]_vars

\* C14's case: an action update refused after an action update, with a
\* history, an age and a total reward to lose.
C14_Witness ==
    /\ op.name = "model_update_action"
    /\ op.err
    /\ last_update = action_update
    /\ history # <<>>
    /\ age = 1

\* C28: a successful model_update_action(action) appends the action's bits
\* to the history via update_history only: no tree node is created or
\* deleted, no node's counts or probabilities change, the tree size and
\* total_reward are unchanged, age increases by exactly 1 and last_update
\* becomes action.
C28_ActionUpdateOnlyExtendsHistory ==
    [][\A a \in 0..MaxAction :
          (ModelUpdateAction(a) /\ model_update_action_ok(TheAgent, a)) =>
              /\ ~op'.err
              /\ history' = history \o encode_action(a)
              /\ nodes' = nodes
              /\ tree_size' = tree_size
              /\ total_reward' = total_reward
              /\ age' = age + 1
              /\ last_update' = action_update]_vars

\* C28's case: an action update accepted by an agent whose tree has learnt
\* from a percept and whose total reward is not zero.
C28_Witness ==
    /\ op.name = "model_update_action"
    /\ ~op.err
    /\ last_update = action_update
    /\ age = 1
    /\ total_reward = 1
    /\ tree_size > 1
    /\ visits(nodes[Root]) > 0
    /\ nodes = pre.nodes

\* The sum of the reward fields of the percept frames of a history made of
\* percept frames and action frames in turn, a percept frame first.
RECURSIVE RewardsIn(_)
RewardsIn(h) ==
    IF Len(h) < percept_bits THEN 0
    ELSE decode_percept(SubSeq(h, 1, percept_bits)).reward
         + RewardsIn(SubSeq(h, percept_bits + action_bits + 1, Len(h)))

\* C16: after any legal sequence of agent updates from reset the history is
\* a strict alternation of fixed-width frames: every percept update, real
\* or simulated, appends reward_bits + observation_bits bits with the reward
\* field first, and every model_update_action appends action_bits bits, so
\* len(history) = p * percept_bits + a * action_bits for p percept updates
\* and a action updates.  (From reset, a is the age and p is a, or a + 1
\* when the last update was a percept; the rewards read back from the
\* percept frames add up to total_reward.)
C16_HistoryIsFramed ==
    (/\ ~op.err
     /\ \/ searches = 0
        \/ op.name = "search_begin" /\ searches = 1
        \/ op.name = "sample" /\ searches = 1 /\ sims = 0) =>
        LET a == age
            p == age + (IF last_update = percept_update THEN 1 ELSE 0)
        IN  /\ Len(history) = p * percept_bits + a * action_bits
            /\ RewardsIn(history) = total_reward

\* C17: generate_random_symbols(n) completes without error and leaves
\* history, nodes and tree size unchanged, so generate_action() returns a
\* decoded action (a value action_bits can hold) without changing the model.
C17_GenerateActionLeavesModel ==
    (op.name = "generate_action" /\ last_update = percept_update) =>
        /\ ~op.err
        /\ Len(op.ret) = 1
        /\ TheTree = pre

-----------------------------------------------------------------------------
(* The agent with a learning period: a run from reset that strictly        *)
(* alternates model_update_percept and model_update_action, every call     *)
(* legal.  The cycle of a call is the number of percepts given so far.     *)

MaxLearningPeriod == 1
MaxCycles == 3

InitLearn ==
    /\ depth \in 0..MaxDepth
    /\ environment \in Environments
    /\ horizon = 1
    /\ mc_simulations = 1
    /\ learning_period \in 1..MaxLearningPeriod
    /\ history = reset.tree.history
    /\ nodes = reset.tree.nodes
    /\ tree_size = reset.tree.tree_size
    /\ age = reset.age
    /\ total_reward = reset.total_reward
    /\ last_update = reset.last_update
    /\ op = Op("init", <<>>, 0, NoRet, FALSE, FALSE)
    /\ pre = clear
    /\ base = NoTree
    /\ matched = 0
    /\ calls = 0
    /\ IdleCodec
    /\ IdleSearch

\* model_update_percept in its turn; op keeps the percept symbols and the
\* cycle.
CyclePercept(observation, reward) ==
    /\ age < MaxCycles
    /\ model_update_percept_ok(TheAgent, observation, reward)
    /\ SetAgent(model_update_percept(TheAgent, observation, reward))
    /\ op' = Op("model_update_percept", encode_percept(observation, reward),
                age + 1, NoRet, FALSE, FALSE)
    /\ pre' = TheTree
    /\ base' = NoTree
    /\ matched' = 0
    /\ calls' = calls
    /\ UNCHANGED <<depth, codecVars, configVars, searchVars>>

\* model_update_action in its turn; op keeps the action symbols and the
\* cycle.
CycleAction(action) ==
    /\ model_update_action_ok(TheAgent, action)
    /\ SetAgent(model_update_action(TheAgent, action))
    /\ op' = Op("model_update_action", encode_action(action),
                age + 1, NoRet, FALSE, FALSE)
    /\ pre' = TheTree
    /\ base' = NoTree
    /\ matched' = 0
    /\ calls' = calls
    /\ UNCHANGED <<depth, codecVars, configVars, searchVars>>

NextLearn ==
    \/ \E o \in 0..1, r \in 0..1 : CyclePercept(o, r)
    \/ \E a \in 0..MaxAction : CycleAction(a)

SpecLearn == InitLearn /\ [][NextLearn]_vars

\* C15: with learning_period L > 0, in a run from reset that strictly
\* alternates model_update_percept and model_update_action, the percepts of
\* cycles 1..L are applied with the CTW update, and the percept of cycle
\* L + 1 and of every later cycle with update_history only (no node is
\* touched).
C15_LearningStopsAfterPeriod ==
    op.name = "model_update_percept" =>
        IF op.n <= learning_period
        THEN TheTree = update(pre, op.bits)
        ELSE /\ TheTree = update_history(pre, op.bits)
             /\ nodes = pre.nodes
             /\ tree_size = pre.tree_size

-----------------------------------------------------------------------------
(* search() on its own: the agent after __init__ is given one percept and  *)
(* then plans, with horizons and numbers of simulations large enough for   *)
(* a sample to descend through visited nodes and then play out.            *)

MaxPlanDepth == 1
MaxPlanAction == 1
MaxPlanHorizon == 2
MaxPlanSimulations == 3

\* Environments with the actions 0..m, from the single action 0 on.
PlanEnvironments ==
    {Env([i \in 1..(m + 1) |-> i - 1], <<0, 1>>, <<0, 1>>) : m \in 0..MaxPlanAction}

InitPlan ==
    /\ depth \in 0..MaxPlanDepth
    /\ environment \in PlanEnvironments
    /\ horizon \in 1..MaxPlanHorizon
    /\ mc_simulations \in 1..MaxPlanSimulations
    /\ learning_period = 0
    /\ history = reset.tree.history
    /\ nodes = reset.tree.nodes
    /\ tree_size = reset.tree.tree_size
    /\ age = reset.age
    /\ total_reward = reset.total_reward
    /\ last_update = reset.last_update
    /\ op = Op("init", <<>>, 0, NoRet, FALSE, FALSE)
    /\ pre = clear
    /\ base = NoTree
    /\ matched = 0
    /\ calls = 0
    /\ IdleCodec
    /\ IdleSearch

NextPlan ==
    \/ \E o \in 0..1, r \in 0..1 : ModelUpdatePercept(o, r)
    \/ SearchBegin
    \/ Sample
    \/ ModelRevert
    \/ SearchEnd

SpecPlan == InitPlan /\ [][NextPlan]_vars

\* The actions with a child under the root of the search tree.
RootActions == {a \in Elements(environment.valid_actions) : <<a>> \in DOMAIN search_tree}

\* C23: search() always returns a member of environment.valid_actions; when
\* no action child exists under the root after the N simulations (as with
\* N = 1, where the only simulation is a playout) the action returned is
\* the random valid action drawn beforehand (op.n), otherwise it is an
\* action that has a child under the root.
C23_SearchReturnsValidAction ==
    (op.name = "search" /\ ~op.err) =>
        /\ Len(op.ret) = 1
        /\ is_valid_action(op.ret[1])
        /\ is_valid_action(op.n)
        /\ RootActions = {} => op.ret[1] = op.n
        /\ RootActions # {} => op.ret[1] \in RootActions
        /\ mc_simulations = 1 => RootActions = {}

\* search() has returned the second action, one of two tried ones, though
\* the first action was drawn beforehand.
C23_Witness ==
    /\ op.name = "search"
    /\ ~op.err
    /\ RootActions = {0, 1}
    /\ op.ret = <<1>>
    /\ op.n = 0

\* The steps search() has left: two for each iteration to come, one for the
\* model_revert of a sample made, one for the choice of the action.
SearchVariant ==
    IF pc = "idle" THEN 0
    ELSE 2 * (mc_simulations - sims) + (IF pc = "sample" THEN 1 ELSE 0)

C25_NodeKindsAlternate ==
    \A p \in DOMAIN search_tree :
        /\ Len(p) % 2 = 0 => search_tree[p].type = decision_node
        /\ Len(p) % 2 = 1 => search_tree[p].type = chance_node
        /\ \A i \in 1..Len(p) :
              /\ SubSeq(p, 1, i - 1) \in DOMAIN search_tree
              /\ i % 2 = 1 => is_valid_action(p[i])
              /\ i % 2 = 0 => p[i] \in Elements(environment.valid_observations)

\* A path of three edges: action, observation, action.
C25_Witness ==
    \E p \in DOMAIN search_tree :
        /\ Len(p) = 3
        /\ search_tree[p].type = chance_node
        /\ search_tree[SubSeq(p, 1, 2)].type = decision_node
        /\ search_tree[SubSeq(p, 1, 2)].visits > 0

\* C26: for every horizon H >= 1 and any number of simulations no node of
\* the search tree is deeper than 2H edges below the root, and the decision
\* nodes at depth 2H keep visits == 0 and have no children.
C26_DepthAtMostTwiceHorizon ==
    \A p \in DOMAIN search_tree :
        /\ Len(p) <= 2 * horizon
        /\ Len(p) = 2 * horizon =>
              /\ search_tree[p].type = decision_node
              /\ search_tree[p].visits = 0
              /\ search_tree[p].mean = <<0, 1>>

\* A node four edges below the root of a search over two cycles, reached
\* by a sample that came after the one that created it.
C26_Witness ==
    /\ horizon = 2
    /\ \E p \in DOMAIN search_tree :
          /\ Len(p) = 4
          /\ search_tree[SubSeq(p, 1, 2)].visits > 0

\* s is h cycles: an encoded valid action followed by the bits of a
\* percept, h times over.
RECURSIVE ParsesAsCycles(_, _)
ParsesAsCycles(s, h) ==
    IF h = 0 THEN s = <<>>
    ELSE \E a \in Elements(environment.valid_actions) :
            LET n == Len(encode_action(a)) + percept_bits
            IN  /\ Len(s) >= n
                /\ SubSeq(s, 1, Len(encode_action(a))) = encode_action(a)
                /\ ParsesAsCycles(SubSeq(s, n + 1, Len(s)), h - 1)

\* C27: each call root.sample(agent, H) on a decision root with H >= 1
\* makes exactly H model_update_action calls and exactly H
\* generate_percept_and_update calls, alternating and starting with an
\* action, whatever mix of descent and playout it takes: the history has
\* grown by H cycles of action bits then percept bits, the age by H, and
\* last_update == percept.
C27_SampleRunsHorizonCycles ==
    op.name = "sample" =>
        /\ age = undo_instance.age + horizon
        /\ last_update = percept_update
        /\ Len(history) >= Len(pre.history)
        /\ SubSeq(history, 1, Len(pre.history)) = pre.history
        /\ ParsesAsCycles(SubSeq(history, Len(pre.history) + 1, Len(history)), horizon)

\* A sample over two cycles that descended through the root and a chance
\* node and then played out from a new decision node.
C27_Witness ==
    /\ op.name = "sample"
    /\ horizon = 2
    /\ search_tree[<<>>].visits = 2
    /\ \E p \in DOMAIN search_tree : Len(p) = 2 /\ search_tree[p].visits = 1
    /\ age = undo_instance.age + 2

-----------------------------------------------------------------------------
(* Claims about the nodes of the search tree and select_action, checked    *)
(* under SpecPlan.                                                         *)

\* The decision nodes of the search tree, and the children of a node.
DecisionNodes == {p \in DOMAIN search_tree : search_tree[p].type = decision_node}

SearchChildren(p) == {q \in DOMAIN search_tree : Len(q) = Len(p) + 1 /\ SubSeq(q, 1, Len(p)) = p}

\* C33: the first sample of a decision node with horizon h >= 1 (visits
\* == 0) is a playout of exactly h random-action/percept steps that
\* creates no child under that node; a decision node acquires children
\* only from its second sample onward.
C33_FirstSampleIsPlayout ==
    /\ \A p \in DecisionNodes :
          /\ search_tree[p].visits <= 1 => SearchChildren(p) = {}
          /\ Cardinality(SearchChildren(p)) <= Max(search_tree[p].visits - 1, 0)
    /\ (op.name = "sample" /\ sims = 0) =>
          /\ DOMAIN search_tree = {<<>>}
          /\ search_tree[<<>>].visits = 1
          /\ search_tree[<<>>].mean = <<op.ret[1], 1>>
          /\ age = undo_instance.age + horizon
          /\ ParsesAsCycles(SubSeq(history, Len(pre.history) + 1, Len(history)), horizon)

\* C33's case: over two cycles, the root has children from its second
\* sample on and a decision node below it has had its first sample only.
C33_Witness ==
    /\ horizon = 2
    /\ search_tree[<<>>].visits = 3
    /\ SearchChildren(<<>>) # {}
    /\ \E p \in DecisionNodes :
          Len(p) = 2 /\ search_tree[p].visits = 1 /\ SearchChildren(p) = {}

\* The node p before a step, a node not yet created counting as new.
NodeBefore(p) ==
    IF p \in DOMAIN search_tree THEN search_tree[p]
    ELSE [type |-> "none", mean |-> <<0, 1>>, visits |-> 0]

\* The sum of the rewards of a node: its mean times its visits.
RewardSum(n) == RatMul(n.mean, <<n.visits, 1>>)

\* C34: for every search node, after k calls of sample with horizon > 0
\* its visits equal k and its mean is the arithmetic average of the k
\* rewards returned by those calls; a call with horizon == 0 returns 0 and
\* changes neither visits, mean, children nor any agent state.  Step by
\* step: a root.sample adds one visit to the nodes of one path and none to
\* the others, the sum of the rewards of each node of the path grows by
\* the reward its call returned (that of the root's call is the result of
\* the sample, a decision node returns what its chance child returns, a
\* chance node that plus the reward of its percept), and nothing else
\* changes.
C34_MeanIsAverageOfRewards ==
    [][op'.name = "sample" =>
          LET touched == {p \in DOMAIN search_tree' :
                             search_tree'[p].visits # NodeBefore(p).visits}
              Returned(p) == RatAdd(RewardSum(search_tree'[p]),
                                    RatMul(<<-1, 1>>, RewardSum(NodeBefore(p))))
              Below(p) == {q \in touched : Len(q) = Len(p) + 1
                                           /\ SubSeq(q, 1, Len(p)) = p}
          IN  /\ DOMAIN search_tree \subseteq DOMAIN search_tree'
              /\ \A p \in DOMAIN search_tree' \ touched :
                    search_tree'[p].mean = NodeBefore(p).mean
              /\ \A p \in touched :
                    /\ search_tree'[p].visits = NodeBefore(p).visits + 1
                    /\ Cardinality(Below(p)) <= 1
                    /\ p # <<>> => SubSeq(p, 1, Len(p) - 1) \in touched
                    /\ \A q \in Below(p) :
                          IF search_tree'[p].type = decision_node
                          THEN Returned(p) = Returned(q)
                          ELSE \E r \in Elements(environment.valid_rewards) :
                                  Returned(p) = RatAdd(<<r, 1>>, Returned(q))
                    /\ (Below(p) = {} /\ search_tree'[p].type = chance_node) =>
                          \E r \in Elements(environment.valid_rewards) :
                              Returned(p) = <<r, 1>>
              /\ <<>> \in touched
              /\ Returned(<<>>) = <<op'.ret[1], 1>>
              /\ \A p \in DOMAIN search_tree' :
                    sample(search_tree', p, TheAgent', 0) =
                        {[search_tree |-> search_tree', agent |-> TheAgent',
                          reward |-> 0, err |-> FALSE]}]_vars

\* C34's case: a root sampled three times with rewards that differ, its
\* mean a proper fraction, above a chance node sampled twice.
C34_Witness ==
    /\ op.name = "sample"
    /\ search_tree[<<>>].visits = 3
    /\ search_tree[<<>>].mean[2] = 3
    /\ \E p \in DOMAIN search_tree : Len(p) = 1 /\ search_tree[p].visits = 2

\* The valid actions without a visited child under the decision node p.
Unexplored(p) ==
    {a \in Elements(environment.valid_actions) :
        Append(p, a) \notin DOMAIN search_tree \/ search_tree[Append(p, a)].visits = 0}

\* C35: select_action always returns a member of valid_actions, and
\* whenever at least one valid action has no child or a child with zero
\* visits, the action returned is such an unexplored action: no explored
\* action is selected again before every valid action has been tried once.
C35_SelectActionPrefersUnexplored ==
    \A p \in DecisionNodes :
        /\ search_tree[p].visits >= 1 =>
              /\ select_action(search_tree, p) # {}
              /\ select_action(search_tree, p) \subseteq Elements(environment.valid_actions)
              /\ Unexplored(p) # {} => select_action(search_tree, p) \subseteq Unexplored(p)
        /\ (\E q \in SearchChildren(p) : search_tree[q].visits >= 2) => Unexplored(p) = {}

\* C35's case: the root has tried the first of two actions and selects
\* the second, the one left unexplored.
C35_Witness ==
    /\ op.name = "sample"
    /\ search_tree[<<>>].visits = 2
    /\ <<0>> \in DOMAIN search_tree
    /\ Unexplored(<<>>) = {1}
    /\ select_action(search_tree, <<>>) = {1}

\* C36: in select_action ties for the highest priority are broken randomly
\* by the jitter: when several valid actions have exactly equal highest
\* priority (as several unexplored actions have), each of them can be the
\* action returned for some outcome of the random draws.
C36_TiesBrokenRandomly ==
    \A p \in DecisionNodes :
        (search_tree[p].visits >= 1 /\ Cardinality(Unexplored(p)) >= 2) =>
            Unexplored(p) \subseteq select_action(search_tree, p)

\* C38: at every point between simulations of a search, every decision
\* node with visits >= 1 satisfies visits == 1 + (the sum of the visits of
\* its chance children): one visit is the first playout and every later
\* visit descends into exactly one chance child.
RECURSIVE SumOfVisits(_)
SumOfVisits(S) ==
    IF S = {} THEN 0
    ELSE LET q == CHOOSE x \in S : TRUE
         IN  search_tree[q].visits + SumOfVisits(S \ {q})

C38_VisitsArePlayoutPlusDescents ==
    ~op.err =>
        \A p \in DecisionNodes :
            search_tree[p].visits >= 1 =>
                search_tree[p].visits = 1 + SumOfVisits(SearchChildren(p))

\* C38's case: a root visited three times above two chance children
\* visited once each.
C38_Witness ==
    /\ search_tree[<<>>].visits = 3
    /\ Cardinality(SearchChildren(<<>>)) = 2
    /\ \A q \in SearchChildren(<<>>) : search_tree[q].visits = 1

-----------------------------------------------------------------------------
(* A claim about search() called out of turn, checked under Spec.          *)

\* C39: calling search() while last_update == action fails at the first
\* simulated model_update_action (inside the playout of the root) before
\* any mutation: history, tree, age, total_reward and last_update are
\* unchanged when the error is raised.
C39_SearchOutOfTurnChangesNothing ==
    (op.name = "search" /\ saved.last_update = action_update) =>
        /\ op.err
        /\ sims = 0
        /\ TheAgent = saved
        /\ search_tree = NewSearchTree(decision_node)

\* C39's case: search() refused after an action update, with a history and
\* an age to lose.
C39_Witness ==
    /\ op.name = "search"
    /\ op.err
    /\ saved.last_update = action_update
    /\ history # <<>>
    /\ age = 1

=============================================================================
